---- MODULE Spec2Model ----
(***************************************************************************)
(* Relic Rush: level construction (structural validation and the           *)
(* breadth-first solvability search), the session rules and the            *)
(* GameController that drives a session against the save and history       *)
(* repositories.                                                           *)
(***************************************************************************)
EXTENDS Integers, Sequences, FiniteSets, TLC

VARIABLES defn, levels, loadResult, state, saves, history, lastOp,
          scored, contexts, issued, returned

vars == <<defn, levels, loadResult, state, saves, history, lastOp,
          scored, contexts, issued, returned>>

\* what only the scoring runs and the interleaved runs use, and returned, the
\* value the last call of a query or of a conversion returned
aside == <<scored, contexts, issued, returned>>

(***************************************************************************)
(* Bounds of the exploration.                                              *)
(***************************************************************************)
\* actions stop appending once the event log of a session holds this many entries
MaxLog == 6
\* the same, in the runs of two users
MaxUsersLog == 4
\* the number of calls the two interleaved execution contexts issue together
MaxCalls == 3
\* the largest move_count of a state handed to a score strategy
MaxScoreMoves == 4
\* the longest event log of a state handed to the serialization
MaxSerialLog == 2
\* moves stop once the history store holds this many results
MaxHistory == 2
\* the most results added to the store a leaderboard is asked of
MaxBoard == 3
\* the largest limit a leaderboard is asked with
MaxLimit == 2
\* in the long runs, moves stop appending at this many log entries
MaxBumpLog == 22

(***************************************************************************)
(* Values.                                                                 *)
(***************************************************************************)
None == "None"

\* the members of GameStatus (their values are the lower-case strings)
IN_PROGRESS == "IN_PROGRESS"
COMPLETED == "COMPLETED"
GAME_OVER == "GAME_OVER"

\* a terminal test that forgets the losing status
is_terminal_only_win(status) == status = COMPLETED

\* GameStatus.is_terminal
is_terminal(status) == status \in {COMPLETED, GAME_OVER}

Rooms == {"Start", "Hall", "End"}
\* the order in which a room's exits dict lists its directions
DirOrder == <<"East", "West">>
Directions == {"East", "West"}
\* directions a caller may ask for; "North" is an exit of no room
AskedDirections == {"East", "West", "North"}
\* the members of Difficulty, by value
Difficulty(value) ==
    CASE value = "easy" -> "Difficulty.EASY"
      [] value = "medium" -> "Difficulty.MEDIUM"
      [] value = "hard" -> "Difficulty.HARD"

Users == {"u1"}
KnownLevelId == "level_1"
LevelIds == {KnownLevelId, "level_x"}

Relic(n) == [type |-> "relic", name |-> n]
Villain(n) == [type |-> "villain", name |-> n]

\* a room without an item
NoItem == [type |-> "none", name |-> "none"]

(***************************************************************************)
(* Raw level definitions (the dictionaries handed to the factory).         *)
(* keys is the set of top-level keys present, coords the set of rooms      *)
(* that have coordinates, exits a function from the declared directions    *)
(* of a room to room names.                                                *)
(***************************************************************************)
RequiredKeys == {"id", "name", "difficulty", "start_room", "rooms", "coords", "rules"}

ExitsOf(east, west) ==
    [d \in {x \in Directions : \/ (x = "East" /\ east # None)
                               \/ (x = "West" /\ west # None)}
        |-> IF d = "East" THEN east ELSE west]

RoomDef(east, west, item) == [exits |-> ExitsOf(east, west), item |-> item]

MakeDefn(keys, start, rooms, coords, required, difficulty) ==
    [keys |-> keys, id |-> KnownLevelId, name |-> "Relic Rush",
     difficulty |-> difficulty, start_room |-> start, rooms |-> rooms,
     coords |-> coords, required_items |-> required]

\* definitions that pass or fail the search: every shape of a three-room map
WellFormedDefinitions ==
    { MakeDefn(RequiredKeys, "Start",
               [r \in Rooms |->
                  CASE r = "Start" -> RoomDef(se, None, si)
                    [] r = "Hall"  -> RoomDef(he, hw, hi)
                    [] r = "End"   -> RoomDef(None, ew, ei)],
               Rooms, req, "medium") :
        se \in {None, "Hall", "End"}, he \in {None, "End"}, hw \in {None, "Start"},
        ew \in {None, "Hall"},
        si \in {NoItem, Relic("X")},
        hi \in {NoItem, Relic("Y"), Villain("Villain"), Relic("Villain")},
        ei \in {NoItem, Relic("Y"), Villain("Villain"), Villain("Thanos")},
        req \in {{}, {"X"}, {"Y"}, {"X", "Y"}} }

ScenarioDefn ==
    MakeDefn(RequiredKeys, "Start",
             [r \in Rooms |->
                CASE r = "Start" -> RoomDef("End", None, Relic("X"))
                  [] r = "Hall"  -> RoomDef(None, None, NoItem)
                  [] r = "End"   -> RoomDef(None, None, Villain("Villain"))],
             Rooms, {"X"}, "medium")

\* definitions broken in one structural way each, and the start room moved
MalformedDefinitions ==
    { [ScenarioDefn EXCEPT !.keys = RequiredKeys \ {"coords"}],
      [ScenarioDefn EXCEPT !.start_room = "Nowhere"],
      [ScenarioDefn EXCEPT !.rooms["Hall"] = RoomDef("Nowhere", None, NoItem)],
      [ScenarioDefn EXCEPT !.coords = {"Start", "End"}],
      [ScenarioDefn EXCEPT !.rooms["Hall"] = RoomDef(None, None, Villain("Thanos"))],
      [ScenarioDefn EXCEPT !.rooms["End"] = RoomDef(None, None, NoItem)],
      [ScenarioDefn EXCEPT !.start_room = "End", !.required_items = {}],
      [ScenarioDefn EXCEPT !.start_room = "End",
                           !.rooms["End"] = RoomDef(None, "Start", Villain("Villain"))] }

Definitions == WellFormedDefinitions \cup MalformedDefinitions

(***************************************************************************)
(* Structural validation.                                                  *)
(***************************************************************************)
VillainRooms(rooms) ==
    {r \in DOMAIN rooms : rooms[r].item # NoItem /\ rooms[r].item.type = "villain"}

\* a validation that only asks for some villain
validate_level_definition_some_villain(d) ==
    IF RequiredKeys \ d.keys # {} THEN "Missing required keys"
    ELSE IF d.start_room \notin DOMAIN d.rooms THEN "Start room does not exist"
    ELSE IF \E r \in DOMAIN d.rooms : \E x \in DOMAIN d.rooms[r].exits :
                d.rooms[r].exits[x] \notin DOMAIN d.rooms
         THEN "Room has invalid exit"
    ELSE IF \E r \in DOMAIN d.rooms : r \notin d.coords THEN "Room missing coordinates"
    ELSE IF Cardinality(VillainRooms(d.rooms)) = 0
         THEN "Level must contain exactly one villain"
    ELSE "ok"

\* validate_level_definition: the first violation found, or "ok"
validate_level_definition(d) ==
    IF RequiredKeys \ d.keys # {} THEN "Missing required keys"
    ELSE IF d.start_room \notin DOMAIN d.rooms THEN "Start room does not exist"
    ELSE IF \E r \in DOMAIN d.rooms : \E x \in DOMAIN d.rooms[r].exits :
                d.rooms[r].exits[x] \notin DOMAIN d.rooms
         THEN "Room has invalid exit"
    ELSE IF \E r \in DOMAIN d.rooms : r \notin d.coords THEN "Room missing coordinates"
    ELSE IF Cardinality(VillainRooms(d.rooms)) # 1
         THEN "Level must contain exactly one villain"
    ELSE "ok"

(***************************************************************************)
(* The solvability search.                                                 *)
(***************************************************************************)
\* MapGraph.neighbors(room).values(), in the order of the exits dict
neighbors(rooms, room) ==
    LET ds == SelectSeq(DirOrder, LAMBDA d : d \in DOMAIN rooms[room].exits)
    IN  [i \in 1..Len(ds) |-> rooms[room].exits[ds[i]]]

RECURSIVE search_loop_revisits(_, _, _, _, _)
\* a search that skips a visited pair only after the second move
search_loop_revisits(rooms, required_items, queue, visited, expanded) ==
    IF queue = <<>>
    THEN [raised |-> TRUE, dist |-> 0, expanded |-> expanded]
    ELSE LET room == Head(queue).room
             items == Head(queue).items
             dist == Head(queue).dist
         IN  IF <<room, items>> \in visited /\ dist > 2
             THEN search_loop_revisits(rooms, required_items, Tail(queue), visited, expanded)
             ELSE LET item == rooms[room].item
                      got == IF item # NoItem /\ item.name \in required_items
                             THEN items \cup {item.name} ELSE items
                      nbrs == neighbors(rooms, room)
                  IN  IF item # NoItem /\ item.name = "Villain" /\ required_items \subseteq got
                      THEN [raised |-> FALSE, dist |-> dist,
                            expanded |-> Append(expanded, <<room, items>>)]
                      ELSE search_loop_revisits(rooms, required_items,
                                Tail(queue) \o [i \in 1..Len(nbrs) |->
                                    [room |-> nbrs[i], items |-> got, dist |-> dist + 1]],
                                visited \cup {<<room, items>>},
                                Append(expanded, <<room, items>>))

RECURSIVE search_loop(_, _, _, _, _)
\* the while loop of compute_optimal_moves; expanded lists the (room, items)
\* pairs in the order they were added to visited
search_loop(rooms, required_items, queue, visited, expanded) ==
    IF queue = <<>>
    THEN [raised |-> TRUE, dist |-> 0, expanded |-> expanded]
    ELSE LET room == Head(queue).room
             items == Head(queue).items
             dist == Head(queue).dist
         IN  IF <<room, items>> \in visited
             THEN search_loop(rooms, required_items, Tail(queue), visited, expanded)
             ELSE LET item == rooms[room].item
                      got == IF item # NoItem /\ item.name \in required_items
                             THEN items \cup {item.name} ELSE items
                      nbrs == neighbors(rooms, room)
                  IN  IF item # NoItem /\ item.name = "Villain" /\ required_items \subseteq got
                      THEN [raised |-> FALSE, dist |-> dist,
                            expanded |-> Append(expanded, <<room, items>>)]
                      ELSE search_loop(rooms, required_items,
                                Tail(queue) \o [i \in 1..Len(nbrs) |->
                                    [room |-> nbrs[i], items |-> got, dist |-> dist + 1]],
                                visited \cup {<<room, items>>},
                                Append(expanded, <<room, items>>))

\* compute_optimal_moves: raised means LevelValidationError("Level is not solvable")
compute_optimal_moves(rooms, start_room, required_items) ==
    search_loop(rooms, required_items,
                <<[room |-> start_room, items |-> {}, dist |-> 0]>>, {}, <<>>)

(***************************************************************************)
(* The factory.                                                            *)
(***************************************************************************)
\* what Level.scoring holds: the factory stores difficulty.scoring_policy, the
\* method itself, which has no calculate attribute
ScoringOf(difficulty) == "method Difficulty.scoring_policy"

Strategies == {"StandardScore", "MaxMovesScore"}

\* LevelFactory.from_definition: LevelValidationError or a Level
from_definition(d) ==
    IF validate_level_definition(d) # "ok"
    THEN [error |-> "LevelValidationError", levels |-> <<>>]
    ELSE LET found == compute_optimal_moves(d.rooms, d.start_room, d.required_items)
         IN  IF found.raised
             THEN [error |-> "LevelValidationError", levels |-> <<>>]
             ELSE [error |-> "none",
                   levels |-> << [id |-> d.id, name |-> d.name,
                                  difficulty |-> Difficulty(d.difficulty),
                                  start_room |-> d.start_room, rooms |-> d.rooms,
                                  required_items |-> d.required_items,
                                  scoring |-> ScoringOf(d.difficulty),
                                  optimal_moves |-> found.dist] >>]

\* the structurally valid definitions, on which the search runs
Searched(d) == validate_level_definition(d) = "ok"

(***************************************************************************)
(* Session state, item hooks and rules.                                    *)
(***************************************************************************)
\* GameState(player=Player(location=start_room)) with the dataclass defaults
NewGameState(start_room) ==
    [location |-> start_room, inventory |-> {}, visited_rooms |-> {},
     collected_items |-> {}, move_count |-> 0, status |-> IN_PROGRESS,
     message |-> None, event_log |-> <<>>, encountered_villain |-> FALSE]

\* a visit that records nothing
visit_nothing(s, room_name) == s

\* GameState.visit
visit(s, room_name) == [s EXCEPT !.visited_rooms = @ \cup {room_name}]

\* hooks of which the villain's only writes the log entry
on_enter_unseen(item, s) ==
    CASE item.type = "relic" ->
            [s EXCEPT !.collected_items = @ \cup {item.name},
                      !.event_log = Append(@, "Collected " \o item.name)]
      [] item.type = "villain" ->
            [s EXCEPT !.event_log = Append(@, "Encountered the villain")]
      [] OTHER -> s

\* Item.on_enter of the item's class: Relic, Villain
on_enter(item, s) ==
    CASE item.type = "relic" ->
            [s EXCEPT !.collected_items = @ \cup {item.name},
                      !.event_log = Append(@, "Collected " \o item.name)]
      [] item.type = "villain" ->
            [s EXCEPT !.encountered_villain = TRUE,
                      !.event_log = Append(@, "Encountered the villain")]
      [] OTHER -> s

\* rules that count the items instead of comparing the sets
check_by_count(required_items, s, room) ==
    IF room.item.type = "villain"
    THEN IF Cardinality(s.collected_items) >= Cardinality(required_items)
         THEN [s EXCEPT !.status = COMPLETED, !.message = "You defeated the villain!"]
         ELSE [s EXCEPT !.status = GAME_OVER, !.message = "You found the villain too soon."]
    ELSE s

\* rules under which meeting the villain always wins
check_always_win(required_items, s, room) ==
    IF room.item.type = "villain"
    THEN [s EXCEPT !.status = COMPLETED, !.message = "You defeated the villain!"]
    ELSE s

\* rules that let only a session still in progress win
check_once_only(required_items, s, room) ==
    IF room.item.type = "villain"
    THEN IF s.status = IN_PROGRESS /\ required_items \subseteq s.collected_items
         THEN [s EXCEPT !.status = COMPLETED, !.message = "You defeated the villain!"]
         ELSE [s EXCEPT !.status = GAME_OVER, !.message = "You found the villain too soon."]
    ELSE s

\* StandardRules.check
check(required_items, s, room) ==
    IF room.item.type = "villain"
    THEN IF required_items \subseteq s.collected_items
         THEN [s EXCEPT !.status = COMPLETED, !.message = "You defeated the villain!"]
         ELSE [s EXCEPT !.status = GAME_OVER, !.message = "You found the villain too soon."]
    ELSE s

(***************************************************************************)
(* Serialization of a GameState and the repositories.                      *)
(***************************************************************************)
RECURSIVE SetToList(_)
\* list(a_set): the elements in some order
SetToList(S) ==
    IF S = {} THEN <<>>
    ELSE LET x == CHOOSE y \in S : TRUE IN <<x>> \o SetToList(S \ {x})

ListToSet(l) == {l[i] : i \in 1..Len(l)}

\* GameStatus.value
StatusValue(status) ==
    CASE status = IN_PROGRESS -> "in_progress"
      [] status = COMPLETED -> "completed"
      [] status = GAME_OVER -> "game_over"

\* GameStatus(value)
StatusOfValue(v) ==
    CASE v = "in_progress" -> IN_PROGRESS
      [] v = "completed" -> COMPLETED
      [] v = "game_over" -> GAME_OVER

\* a serialization that writes the event log as it writes the sets
gamestate_to_dict_unordered(s) ==
    [player |-> [location |-> s.location, inventory |-> SetToList(s.inventory)],
     visited_rooms |-> SetToList(s.visited_rooms),
     collected_items |-> SetToList(s.collected_items),
     move_count |-> s.move_count,
     status |-> StatusValue(s.status),
     message |-> s.message,
     event_log |-> SetToList(ListToSet(s.event_log)),
     encountered_villain |-> s.encountered_villain]

gamestate_to_dict(s) ==
    [player |-> [location |-> s.location, inventory |-> SetToList(s.inventory)],
     visited_rooms |-> SetToList(s.visited_rooms),
     collected_items |-> SetToList(s.collected_items),
     move_count |-> s.move_count,
     status |-> StatusValue(s.status),
     message |-> s.message,
     event_log |-> s.event_log,
     encountered_villain |-> s.encountered_villain]

gamestate_from_dict(d) ==
    [location |-> d.player.location, inventory |-> ListToSet(d.player.inventory),
     visited_rooms |-> ListToSet(d.visited_rooms),
     collected_items |-> ListToSet(d.collected_items),
     move_count |-> d.move_count,
     status |-> StatusOfValue(d.status),
     message |-> d.message,
     event_log |-> d.event_log,
     encountered_villain |-> d.encountered_villain]

\* the collection of save documents is a sequence, in insertion order;
\* the positions of the documents that match {"user_email": user_email}
Matching(sv, user_email) == {i \in DOMAIN sv : sv[i].user_email = user_email}

\* the first matching document is the one update_one, find_one and delete_one take
FirstMatch(sv, user_email) ==
    CHOOSE i \in Matching(sv, user_email) : \A j \in Matching(sv, user_email) : i <= j

HasActive(sv, user_email) == Matching(sv, user_email) # {}

\* an upsert that inserts a new document every time
upsert_active_insert(sv, user_email, level_id, s) ==
    Append(sv, [user_email |-> user_email, level_id |-> level_id,
                state |-> gamestate_to_dict(s)])

\* SaveRepository.upsert_active: update_one(filter, $set, upsert=True)
upsert_active(sv, user_email, level_id, s) ==
    IF HasActive(sv, user_email)
    THEN [sv EXCEPT ![FirstMatch(sv, user_email)] =
              [@ EXCEPT !.level_id = level_id, !.state = gamestate_to_dict(s)]]
    ELSE Append(sv, [user_email |-> user_email, level_id |-> level_id,
                     state |-> gamestate_to_dict(s)])

\* a delete that removes nothing
delete_active_kept(sv, user_email) == sv

\* SaveRepository.delete_active: delete_one(filter)
delete_active(sv, user_email) ==
    IF HasActive(sv, user_email)
    THEN LET i == FirstMatch(sv, user_email)
         IN  SubSeq(sv, 1, i - 1) \o SubSeq(sv, i + 1, Len(sv))
    ELSE sv

\* SaveRepository.get_active on a user that has a document: find_one(filter)
get_active(sv, user_email) ==
    LET doc == sv[FirstMatch(sv, user_email)]
    IN  [user_email |-> doc.user_email, level_id |-> doc.level_id,
         state |-> gamestate_from_dict(doc.state)]

\* an add that keeps only the newest result
add_overwriting(h, result) == <<result>>

\* HistoryRepository.add
add(h, result) == Append(h, result)

(***************************************************************************)
(* Scoring.                                                                *)
(***************************************************************************)
WIN_BASE == 1000
MAX_PROGRESS_SCORE == 500
MAX_EFFICIENCY_SCORE == 1000

\* DIFFICULTY_MULTIPLIER, in quarters; its keys are the strings
MultiplierKeys == {"easy", "medium", "hard"}
MultiplierQuarters(key) ==
    CASE key = "easy" -> 3 [] key = "medium" -> 4 [] key = "hard" -> 5

Min(a, b) == IF a <= b THEN a ELSE b
Max(a, b) == IF a >= b THEN a ELSE b

\* StandardScore.calculate
StandardScore(s, lvl) ==
    LET collected == Cardinality(s.collected_items)
        total_required == Cardinality(lvl.required_items)
        progress_score == IF total_required # 0
                          THEN (MAX_PROGRESS_SCORE * collected) \div total_required
                          ELSE 0
    IN  IF s.status # COMPLETED THEN [raised |-> "none", score |-> progress_score]
        ELSE IF s.move_count = 0 THEN [raised |-> "ZeroDivisionError", score |-> 0]
        ELSE IF lvl.difficulty \notin MultiplierKeys THEN [raised |-> "KeyError", score |-> 0]
        ELSE LET efficiency_score ==
                     Min((MAX_EFFICIENCY_SCORE * lvl.optimal_moves) \div s.move_count,
                         MAX_EFFICIENCY_SCORE)
             IN  [raised |-> "none",
                  score |-> (4 * (WIN_BASE + progress_score)
                             + efficiency_score * MultiplierQuarters(lvl.difficulty)) \div 4]

\* MaxMovesScore.calculate (OVERAGE_PENALTY_FACTOR is one half)
MaxMovesScore(s, lvl) ==
    LET base == StandardScore(s, lvl)
    IN  IF base.raised # "none" THEN base
        ELSE IF s.status # COMPLETED THEN base
        ELSE IF s.move_count <= lvl.optimal_moves THEN base
        ELSE IF lvl.optimal_moves = 0 THEN [raised |-> "ZeroDivisionError", score |-> 0]
        ELSE LET overage == s.move_count - lvl.optimal_moves
                 penalty == IF overage >= lvl.optimal_moves
                            THEN base.score \div 2
                            ELSE (base.score * overage) \div (2 * lvl.optimal_moves)
             IN  [raised |-> "none", score |-> Max(base.score - penalty, 0)]

\* level.scoring.calculate(state, level)
calculate(s, lvl) ==
    CASE lvl.scoring = "StandardScore" -> StandardScore(s, lvl)
      [] lvl.scoring = "MaxMovesScore" -> MaxMovesScore(s, lvl)
      [] OTHER -> [raised |-> "AttributeError", score |-> 0]

(***************************************************************************)
(* The controller.  Every operation is a function of the repositories and  *)
(* of the GameState object the caller passes; it yields the object as the   *)
(* call leaves it (a GameState is mutated in place, so changes made before  *)
(* an exception stay), the repositories, and the exception raised.          *)
(***************************************************************************)
Put(f, k, v) == [x \in DOMAIN f \cup {k} |-> IF x = k THEN v ELSE f[x]]

\* GameController._require_level raises ValueError on an unknown id
Unknown(level_id) == level_id \notin DOMAIN levels

\* an autosave that writes nothing
autosave_skipped(sv, user_email, level_id, s) == sv

\* GameController._autosave
autosave(sv, user_email, level_id, s) == upsert_active(sv, user_email, level_id, s)

\* the GameResult built by _persist_or_finalize
GameResult(user_email, level_id, s, score, lvl) ==
    [user_email |-> user_email, level_id |-> level_id, status |-> StatusValue(s.status),
     score |-> score, moves |-> s.move_count,
     items_collected |-> Cardinality(s.collected_items),
     snapshot |-> [final_room |-> s.location,
                   inventory |-> SetToList(s.collected_items),
                   encountered_villain |-> s.encountered_villain,
                   optimal_moves |-> lvl.optimal_moves]]

\* GameController._persist_or_finalize
persist_or_finalize(sv, h, user_email, level_id, s) ==
    IF ~is_terminal(s.status)
    THEN [state |-> s, saves |-> autosave(sv, user_email, level_id, s),
          history |-> h, raised |-> "none"]
    ELSE LET lvl == levels[level_id]
             sc == calculate(s, lvl)
         IN  IF sc.raised # "none"
             THEN [state |-> s, saves |-> sv, history |-> h, raised |-> sc.raised]
             ELSE [state |-> s,
                   saves |-> delete_active(sv, user_email),
                   history |-> add(h, GameResult(user_email, level_id, s, sc.score, lvl)),
                   raised |-> "none"]

\* a start that does not mark the start room visited
start_new_run_unvisited(sv, user_email, level_id) ==
    LET lvl == levels[level_id]
        s == [NewGameState(lvl.start_room) EXCEPT !.message = "Started " \o lvl.name]
    IN  [state |-> s, saves |-> autosave(sv, user_email, level_id, s)]

\* GameController.start_new_run on a known level: the new state and the saves
start_new_run(sv, user_email, level_id) ==
    LET lvl == levels[level_id]
        s == [visit(NewGameState(lvl.start_room), lvl.start_room)
                 EXCEPT !.message = "Started " \o lvl.name]
    IN  [state |-> s, saves |-> autosave(sv, user_email, level_id, s)]

\* a bump that is counted as a move
wall_bump_counted(s) ==
    [s EXCEPT !.message = "You bumped into a wall.",
              !.event_log = Append(@, "Bumped into a wall"),
              !.move_count = @ + 1]

\* move, the wall branch: the state a bump leaves
wall_bump(s) ==
    [s EXCEPT !.message = "You bumped into a wall.",
              !.event_log = Append(@, "Bumped into a wall")]

\* a movement that leaves no entry in the log
perform_movement_unlogged(s, direction, next_room) ==
    [visit([s EXCEPT !.location = next_room, !.move_count = @ + 1], next_room)
        EXCEPT !.message = None]

\* a movement that does not count the move
perform_movement_uncounted(s, direction, next_room) ==
    [visit([s EXCEPT !.location = next_room], next_room)
        EXCEPT !.event_log = Append(@, "Moved " \o direction \o " to " \o next_room),
               !.message = None]

\* move, "Perform movement": location, move_count, visit, log entry, message
perform_movement(s, direction, next_room) ==
    [visit([s EXCEPT !.location = next_room, !.move_count = @ + 1], next_room)
        EXCEPT !.event_log = Append(@, "Moved " \o direction \o " to " \o next_room),
               !.message = None]

\* move, the item hook of the entered room and then the rules
hook_and_rules(lvl, s, entered_room) ==
    LET hooked == IF entered_room.item # NoItem
                  THEN on_enter(entered_room.item, s) ELSE s
    IN  check(lvl.required_items, hooked, entered_room)

\* GameController.move
move(sv, h, user_email, level_id, s, direction) ==
    IF is_terminal(s.status)
    THEN [state |-> [s EXCEPT !.message = "Game already ended."],
          saves |-> sv, history |-> h, raised |-> "none"]
    ELSE IF Unknown(level_id)
    THEN [state |-> s, saves |-> sv, history |-> h, raised |-> "ValueError"]
    ELSE LET lvl == levels[level_id]
             room == lvl.rooms[s.location]
         IN  IF direction \notin DOMAIN room.exits
             THEN [state |-> wall_bump(s),
                   saves |-> autosave(sv, user_email, level_id, wall_bump(s)),
                   history |-> h, raised |-> "none"]
             ELSE LET next_room == room.exits[direction]
                      moved == perform_movement(s, direction, next_room)
                      ruled == hook_and_rules(lvl, moved, lvl.rooms[next_room])
                  IN  persist_or_finalize(sv, h, user_email, level_id, ruled)

\* a pickup that also writes a log entry
pickup_logged(sv, h, user_email, level_id, s) ==
    IF is_terminal(s.status)
    THEN [state |-> [s EXCEPT !.message = "Game already ended."],
          saves |-> sv, history |-> h, raised |-> "none"]
    ELSE LET t == [s EXCEPT !.message = "Nothing to pick up.",
                            !.event_log = Append(@, "Nothing to pick up.")]
         IN  [state |-> t, saves |-> autosave(sv, user_email, level_id, t),
              history |-> h, raised |-> "none"]

\* GameController.pickup
pickup(sv, h, user_email, level_id, s) ==
    IF is_terminal(s.status)
    THEN [state |-> [s EXCEPT !.message = "Game already ended."],
          saves |-> sv, history |-> h, raised |-> "none"]
    ELSE LET t == [s EXCEPT !.message = "Nothing to pick up."]
         IN  [state |-> t, saves |-> autosave(sv, user_email, level_id, t),
              history |-> h, raised |-> "none"]

(***************************************************************************)
(* The state machine: one level definition is loaded through the factory   *)
(* into the level source, and callers then drive the controller.  state[u]  *)
(* is the GameState object user u's caller holds.                           *)
(***************************************************************************)
Op(op, user, level_id, direction, raised) ==
    [op |-> op, user |-> user, level_id |-> level_id, direction |-> direction,
     raised |-> raised]

\* room for the entries one move can append (the movement and the item hook)
CanLog(s) == Len(s.event_log) + 2 <= MaxLog

Init ==
    /\ defn \in Definitions
    /\ levels = <<>>
    /\ loadResult = "pending"
    /\ state = <<>>
    /\ saves = <<>>
    /\ history = <<>>
    /\ lastOp = Op("none", "none", "none", "none", "none")
    /\ scored = <<>>
    /\ contexts = <<>>
    /\ issued = <<>>
    /\ returned = <<>>

\* the level is built once, at load time
LoadLevel ==
    /\ loadResult = "pending"
    /\ LET r == from_definition(defn)
       IN  /\ levels' = IF r.error = "none" THEN (r.levels[1].id :> r.levels[1]) ELSE levels
           /\ loadResult' = IF r.error = "none" THEN "loaded" ELSE r.error
           /\ lastOp' = Op("from_definition", "none", defn.id, "none", r.error)
    /\ UNCHANGED <<defn, state, saves, history, aside>>

StartNewRun(u, lid) ==
    /\ loadResult # "pending"
    /\ IF Unknown(lid)
       THEN /\ UNCHANGED <<state, saves>>
            /\ lastOp' = Op("start_new_run", u, lid, "none", "ValueError")
       ELSE LET r == start_new_run(saves, u, lid)
            IN  /\ state' = Put(state, u, r.state)
                /\ saves' = r.saves
                /\ lastOp' = Op("start_new_run", u, lid, "none", "none")
    /\ UNCHANGED <<defn, levels, loadResult, history, aside>>

\* restart_run deletes the save before start_new_run looks the level up
RestartRun(u, lid) ==
    /\ loadResult # "pending"
    /\ LET deleted == delete_active(saves, u)
       IN  IF Unknown(lid)
           THEN /\ saves' = deleted
                /\ UNCHANGED state
                /\ lastOp' = Op("restart_run", u, lid, "none", "ValueError")
           ELSE LET r == start_new_run(deleted, u, lid)
                IN  /\ state' = Put(state, u, r.state)
                    /\ saves' = r.saves
                    /\ lastOp' = Op("restart_run", u, lid, "none", "none")
    /\ UNCHANGED <<defn, levels, loadResult, history, aside>>

AbandonRun(u) ==
    /\ loadResult # "pending"
    /\ saves' = delete_active(saves, u)
    /\ lastOp' = Op("abandon_run", u, "none", "none", "none")
    /\ UNCHANGED <<defn, levels, loadResult, state, history, aside>>

\* restore_run, after which the caller goes on with the restored state
RestoreRun(u) ==
    /\ loadResult # "pending"
    /\ state' = IF HasActive(saves, u) THEN Put(state, u, get_active(saves, u).state)
                ELSE state
    /\ lastOp' = Op("restore_run", u, "none", "none", "none")
    /\ UNCHANGED <<defn, levels, loadResult, saves, history, aside>>

Move(u, lid, direction) ==
    /\ u \in DOMAIN state
    /\ is_terminal(state[u].status) \/ CanLog(state[u])
    /\ LET r == move(saves, history, u, lid, state[u], direction)
       IN  /\ state' = Put(state, u, r.state)
           /\ saves' = r.saves
           /\ history' = r.history
           /\ lastOp' = Op("move", u, lid, direction, r.raised)
    /\ UNCHANGED <<defn, levels, loadResult, aside>>

Pickup(u, lid) ==
    /\ u \in DOMAIN state
    /\ LET r == pickup(saves, history, u, lid, state[u])
       IN  /\ state' = Put(state, u, r.state)
           /\ saves' = r.saves
           /\ history' = r.history
           /\ lastOp' = Op("pickup", u, lid, "none", r.raised)
    /\ UNCHANGED <<defn, levels, loadResult, aside>>

Next ==
    \/ LoadLevel
    \/ \E u \in Users, lid \in LevelIds : StartNewRun(u, lid)
    \/ \E u \in Users, lid \in LevelIds : RestartRun(u, lid)
    \/ \E u \in Users : AbandonRun(u)
    \/ \E u \in Users : RestoreRun(u)
    \/ \E u \in Users, lid \in LevelIds, direction \in AskedDirections : Move(u, lid, direction)
    \/ \E u \in Users, lid \in LevelIds : Pickup(u, lid)

Spec == Init /\ [][Next]_vars

(***************************************************************************)
(* Properties.                                                             *)
(***************************************************************************)
Terminal == {COMPLETED, GAME_OVER}

\* the step just taken was a call of op by a caller that held a state
Called(op) == lastOp'.op = op /\ lastOp'.user \in DOMAIN state

\* C1: over move and pickup calls on a session the status only ever goes from
\* IN_PROGRESS to COMPLETED or GAME_OVER, and a terminal status never changes
C1_StatusOnlyAdvances ==
    [][ (Called("move") \/ Called("pickup")) =>
            LET before == state[lastOp'.user].status
                after == state'[lastOp'.user].status
            IN  /\ before \in Terminal => after = before
                /\ before = IN_PROGRESS => after \in {IN_PROGRESS, COMPLETED, GAME_OVER}
                /\ after = IN_PROGRESS => before = IN_PROGRESS ]_vars

\* a pickup was called on a session that had ended in a loss
C1_Witness ==
    /\ lastOp.op = "pickup"
    /\ lastOp.user \in DOMAIN state
    /\ state[lastOp.user].status = GAME_OVER
    /\ state[lastOp.user].message = "Game already ended."

\* C9: a move on a state whose status is COMPLETED or GAME_OVER sets the message
\* and nothing else: the rest of the state, the saves and the history stay
C9_TerminalMoveOnlyMessage ==
    [][ (Called("move") /\ state[lastOp'.user].status \in Terminal) =>
            /\ state'[lastOp'.user] =
                   [state[lastOp'.user] EXCEPT !.message = "Game already ended."]
            /\ saves' = saves
            /\ history' = history ]_vars

\* a move was called on a session that had already ended
C9_Witness ==
    /\ lastOp.op = "move"
    /\ lastOp.user \in DOMAIN state
    /\ state[lastOp.user].status \in Terminal
    /\ state[lastOp.user].message = "Game already ended."

\* the call just made was a move of an IN_PROGRESS session, on a known level,
\* in a direction the current room has no exit for
BumpCalled ==
    /\ Called("move")
    /\ state[lastOp'.user].status = IN_PROGRESS
    /\ ~Unknown(lastOp'.level_id)
    /\ lastOp'.direction \notin
           DOMAIN levels[lastOp'.level_id].rooms[state[lastOp'.user].location].exits

\* C10: a move in a direction that is not an exit of the current room leaves
\* status, move_count and location as they were, sets the wall-bump message and
\* writes no completed-run record
C10_WallBump ==
    [][ BumpCalled =>
            /\ state'[lastOp'.user].status = state[lastOp'.user].status
            /\ state'[lastOp'.user].move_count = state[lastOp'.user].move_count
            /\ state'[lastOp'.user].location = state[lastOp'.user].location
            /\ state'[lastOp'.user].message = "You bumped into a wall."
            /\ history' = history ]_vars

\* a session that moved and then bumped into a wall
C10_Witness ==
    /\ lastOp.op = "move"
    /\ lastOp.raised = "none"
    /\ lastOp.user \in DOMAIN state
    /\ state[lastOp.user].status = IN_PROGRESS
    /\ state[lastOp.user].message = "You bumped into a wall."
    /\ state[lastOp.user].move_count > 0

\* the user whose call was the last one, when that caller holds a state
Caller == lastOp.user

\* C2: a move that makes the status terminal appends exactly one completed-run
\* record of that user and level and leaves the user without an active-session
\* record; a move that stays IN_PROGRESS appends none, and neither does a call
\* on a state that is already terminal
C2_TerminalMoveFinalizes ==
    [][ Called("move") =>
            LET u == lastOp'.user
                before == state[u].status
                after == state'[u].status
            IN  /\ (before = IN_PROGRESS /\ after \in Terminal) =>
                       /\ Len(history') = Len(history) + 1
                       /\ SubSeq(history', 1, Len(history)) = history
                       /\ history'[Len(history')].user_email = u
                       /\ history'[Len(history')].level_id = lastOp'.level_id
                       /\ ~HasActive(saves', u)
                /\ (before = IN_PROGRESS /\ after = IN_PROGRESS) => history' = history
                /\ before \in Terminal => history' = history ]_vars

(***************************************************************************)
(* Walks of a room graph: what a level definition allows, stated without   *)
(* the search.  A walk collects the relic of every room it stands in, the  *)
(* start room included.                                                    *)
(***************************************************************************)
Held(rooms, r) == IF rooms[r].item.type = "relic" THEN {rooms[r].item.name} ELSE {}

RECURSIVE WalkStates(_, _)
\* the (room, collected) pairs at the end of the walks of exactly k moves
WalkStates(d, k) ==
    IF k = 0 THEN {<<d.start_room, Held(d.rooms, d.start_room)>>}
    ELSE UNION { { <<d.rooms[p[1]].exits[x],
                     p[2] \cup Held(d.rooms, d.rooms[p[1]].exits[x])>> :
                       x \in DOMAIN d.rooms[p[1]].exits } : p \in WalkStates(d, k - 1) }

\* some walk of exactly k moves ends in the villain's room with every required item
WalkOfLength(d, k) ==
    \E p \in WalkStates(d, k) :
        p[1] \in VillainRooms(d.rooms) /\ d.required_items \subseteq p[2]

\* a shortest such walk repeats no (room, collected) pair
WalkBound(d) == Cardinality(DOMAIN d.rooms) * (2 ^ Cardinality(d.required_items))

Solvable(d) == \E k \in 0..WalkBound(d) : WalkOfLength(d, k)

ShortestWalk(d) ==
    CHOOSE k \in 0..WalkBound(d) :
        WalkOfLength(d, k) /\ \A j \in 0..(k - 1) : ~WalkOfLength(d, j)

JustLoaded == lastOp.op = "from_definition"

\* C3: every level the factory accepts has a walk of exactly optimal_moves moves
\* from start_room that collects all required items and ends in the villain's room
C3_AcceptedHasOptimalWalk ==
    (JustLoaded /\ loadResult = "loaded") =>
        WalkOfLength(defn, levels[defn.id].optimal_moves)

\* C5: a structurally valid definition without any walk that collects every
\* required item and ends in the villain's room is rejected with
\* LevelValidationError and yields no Level
C5_UnsolvableRejected ==
    (JustLoaded /\ Searched(defn) /\ ~Solvable(defn)) =>
        (loadResult = "LevelValidationError" /\ levels = <<>>)

\* C6: a structurally valid definition with such a walk is accepted, and
\* optimal_moves is the length of a shortest such walk
C6_SolvableAccepted ==
    (JustLoaded /\ Searched(defn) /\ Solvable(defn)) =>
        (loadResult = "loaded" /\ levels[defn.id].optimal_moves = ShortestWalk(defn))

RECURSIVE SessionStates(_, _)
\* the states a session on level lid is in after exactly k successful moves
SessionStates(lid, k) ==
    IF k = 0 THEN {start_new_run(<<>>, "u1", lid).state}
    ELSE UNION { { move(<<>>, <<>>, "u1", lid, s, x).state :
                     x \in DOMAIN levels[lid].rooms[s.location].exits } :
                   s \in {t \in SessionStates(lid, k - 1) : t.status = IN_PROGRESS} }

CompletedIn(lid, k) ==
    \E s \in SessionStates(lid, k) : s.status = COMPLETED /\ s.move_count = k

\* C4: on an accepted level the least move_count with which a session reaches
\* COMPLETED is the level's optimal_moves
C4_SessionMinimumIsOptimal ==
    (JustLoaded /\ loadResult = "loaded") =>
        LET opt == levels[defn.id].optimal_moves
        IN  /\ CompletedIn(defn.id, opt)
            /\ \A j \in 0..(opt - 1) : ~CompletedIn(defn.id, j)

\* C7: check on a room that holds the villain makes the status COMPLETED with the
\* win message when every required item is collected and GAME_OVER with the loss
\* message when one is missing; on any other room it changes neither
C7_RulesCheck ==
    \A u \in DOMAIN state : \A lid \in DOMAIN levels : \A r \in DOMAIN levels[lid].rooms :
        LET s == state[u]
            room == levels[lid].rooms[r]
            t == check(levels[lid].required_items, s, room)
        IN  /\ (room.item.type = "villain"
                  /\ levels[lid].required_items \subseteq s.collected_items) =>
                    (t.status = COMPLETED /\ t.message = "You defeated the villain!")
            /\ (room.item.type = "villain"
                  /\ ~(levels[lid].required_items \subseteq s.collected_items)) =>
                    (t.status = GAME_OVER /\ t.message = "You found the villain too soon.")
            /\ room.item.type # "villain" =>
                    (t.status = s.status /\ t.message = s.message)
            /\ t = [s EXCEPT !.status = t.status, !.message = t.message]

\* a session that entered the villain's room one required item short
C7_Witness ==
    /\ lastOp.op = "move"
    /\ Caller \in DOMAIN state
    /\ state[Caller].status = GAME_OVER
    /\ state[Caller].message = "You found the villain too soon."
    /\ state[Caller].encountered_villain
    /\ \E lid \in DOMAIN levels :
          ~(levels[lid].required_items \subseteq state[Caller].collected_items)

\* C8: on the scenario level (Start holds required X and leads East to End, which
\* holds the villain) a run started at Start and moved East is COMPLETED and has
\* a completed-run record with a score of at least 1000
C8_ScenarioB ==
    (/\ defn = ScenarioDefn
     /\ lastOp.op = "move" /\ lastOp.direction = "East" /\ lastOp.level_id = defn.id
     /\ Caller \in DOMAIN state
     /\ state[Caller].location = "End"
     /\ state[Caller].move_count = 1) =>
        /\ state[Caller].status = COMPLETED
        /\ \E i \in DOMAIN history :
              history[i].user_email = Caller /\ history[i].score >= WIN_BASE

(***************************************************************************)
(* Saving, abandoning and failing.                                         *)
(***************************************************************************)
\* the call just made returned normally
Returned == lastOp'.raised = "none"

\* C11: when a move that leaves the session IN_PROGRESS (a step to another room or
\* a wall bump) or a pickup on an IN_PROGRESS session returns, the user has an
\* active-session record that holds the level id of the call, and restore_run
\* yields a state equal to the returned one
C11_AutosaveHoldsReturnedState ==
    [][ ((Called("move") \/ Called("pickup")) /\ Returned
            /\ state[lastOp'.user].status = IN_PROGRESS
            /\ state'[lastOp'.user].status = IN_PROGRESS) =>
            /\ HasActive(saves', lastOp'.user)
            /\ get_active(saves', lastOp'.user).level_id = lastOp'.level_id
            /\ get_active(saves', lastOp'.user).state = state'[lastOp'.user] ]_vars

\* a step into another room that collected a relic was saved as it was returned
C11_Witness ==
    /\ lastOp.op = "move" /\ lastOp.raised = "none"
    /\ Caller \in DOMAIN state
    /\ state[Caller].status = IN_PROGRESS
    /\ state[Caller].move_count > 0
    /\ state[Caller].message = None
    /\ state[Caller].collected_items # {}
    /\ HasActive(saves, Caller)
    /\ get_active(saves, Caller).state = state[Caller]

\* the session is IN_PROGRESS and some exit of its room leads to a win
OneMoveFromCompletion(s, lid) ==
    /\ s.status = IN_PROGRESS
    /\ \E x \in DOMAIN levels[lid].rooms[s.location].exits :
          hook_and_rules(levels[lid],
                         perform_movement(s, x, levels[lid].rooms[s.location].exits[x]),
                         levels[lid].rooms[levels[lid].rooms[s.location].exits[x]]
                        ).status = COMPLETED

\* C12: abandon_run leaves the user without an active-session record and leaves
\* the history store as it was, whatever state the session is in
C12_AbandonDeletesOnly ==
    [][ lastOp'.op = "abandon_run" =>
            /\ ~HasActive(saves', lastOp'.user)
            /\ history' = history ]_vars

\* a saved run that was one move from completion has just been abandoned
C12_Witness ==
    /\ lastOp.op = "abandon_run"
    /\ Caller \in DOMAIN state
    /\ KnownLevelId \in DOMAIN levels
    /\ OneMoveFromCompletion(state[Caller], KnownLevelId)
    /\ ~HasActive(saves, Caller)
    /\ history = <<>>

\* the operations that look the level up
LooksLevelUp == {"start_new_run", "restart_run", "move"}

\* C13: start_new_run, restart_run and move on an IN_PROGRESS state, called with a
\* level id the level source does not know, raise the not-found error and leave
\* the session states, the active-session store and the history store as they were
C13_UnknownLevelMutatesNothing ==
    [][ (/\ lastOp'.op \in LooksLevelUp
         /\ Unknown(lastOp'.level_id)
         /\ lastOp'.op = "move" =>
               (lastOp'.user \in DOMAIN state /\ state[lastOp'.user].status = IN_PROGRESS)) =>
            /\ lastOp'.raised = "ValueError"
            /\ state' = state
            /\ saves' = saves
            /\ history' = history ]_vars

\* the operations of the controller that change a session
ControllerOps == {"start_new_run", "restart_run", "abandon_run", "move", "pickup"}

\* C14: a controller operation that fails leaves the session states, the
\* active-session store and the history store unchanged, and a move that reaches a
\* terminal status both appends the completed-run record and deletes the
\* active-session record, or does neither and changes nothing
C14_AllOrNothing ==
    [][ lastOp'.op \in ControllerOps =>
            /\ lastOp'.raised # "none" =>
                  (state' = state /\ saves' = saves /\ history' = history)
            /\ (Called("move") /\ state[lastOp'.user].status = IN_PROGRESS
                  /\ state'[lastOp'.user].status \in Terminal) =>
                  \/ /\ Len(history') = Len(history) + 1
                     /\ ~HasActive(saves', lastOp'.user)
                  \/ /\ history' = history
                     /\ saves' = saves ]_vars

(***************************************************************************)
(* Scoring runs: a level built by the factory, a session state of any      *)
(* status, and the two strategies applied to them.                         *)
(***************************************************************************)
\* Start holds X and leads East to Hall, which holds Y and leads East to End
TwoStepDefn ==
    MakeDefn(RequiredKeys, "Start",
             [r \in Rooms |->
                CASE r = "Start" -> RoomDef("Hall", None, Relic("X"))
                  [] r = "Hall"  -> RoomDef("End", None, Relic("Y"))
                  [] r = "End"   -> RoomDef(None, None, Villain("Villain"))],
             Rooms, {"X", "Y"}, "medium")

\* levels with optimal_moves 1, 2 and 0, in every difficulty
ScoreDefinitions ==
    { [d EXCEPT !.difficulty = v] :
        d \in {ScenarioDefn, TwoStepDefn,
               [ScenarioDefn EXCEPT !.start_room = "End", !.required_items = {}]},
        v \in {"easy", "medium", "hard"} }

ScoredUser == "u1"

InitScore ==
    /\ defn \in ScoreDefinitions
    /\ levels = (defn.id :> from_definition(defn).levels[1])
    /\ loadResult = "loaded"
    /\ state \in { (ScoredUser :> [NewGameState(defn.start_room)
                                     EXCEPT !.collected_items = c,
                                            !.move_count = m,
                                            !.status = st]) :
                     c \in SUBSET {"X", "Y"}, m \in 1..MaxScoreMoves,
                     st \in {IN_PROGRESS, COMPLETED, GAME_OVER} }
    /\ saves = <<>>
    /\ history = <<>>
    /\ lastOp = Op("none", "none", "none", "none", "none")
    /\ scored = <<>>
    /\ contexts = <<>>
    /\ issued = <<>>
    /\ returned = <<>>

\* strategy.calculate(state, level)
CalculateScore(strategy) ==
    /\ scored' = Put(scored, strategy,
                     calculate(state[ScoredUser],
                               [levels[defn.id] EXCEPT !.scoring = strategy]))
    /\ UNCHANGED <<defn, levels, loadResult, state, saves, history, lastOp,
                   contexts, issued, returned>>

NextScore == \E strategy \in Strategies : CalculateScore(strategy)

SpecScore == InitScore /\ [][NextScore]_vars

\* C15: for the same level and the same collected items, the score a strategy
\* calculates for a COMPLETED state is greater than the score it calculates for
\* a state that is not COMPLETED, whatever the move counts
C15_CompletedScoresHigher ==
    \A strategy \in DOMAIN scored :
        state[ScoredUser].status = COMPLETED =>
            \A st \in {IN_PROGRESS, GAME_OVER}, m \in 0..MaxScoreMoves :
                LET other == calculate([state[ScoredUser] EXCEPT !.status = st,
                                                                 !.move_count = m],
                                       [levels[defn.id] EXCEPT !.scoring = strategy])
                IN  /\ scored[strategy].raised = "none"
                    /\ other.raised = "none"
                    /\ scored[strategy].score > other.score

\* C16: for the same COMPLETED state and level the penalized score is at most the
\* baseline score when move_count exceeds optimal_moves and equal to it otherwise
C16_ScenarioE ==
    (state[ScoredUser].status = COMPLETED /\ DOMAIN scored = Strategies) =>
        /\ scored["StandardScore"].raised = "none"
        /\ scored["MaxMovesScore"].raised = "none"
        /\ state[ScoredUser].move_count > levels[defn.id].optimal_moves =>
              scored["MaxMovesScore"].score <= scored["StandardScore"].score
        /\ state[ScoredUser].move_count <= levels[defn.id].optimal_moves =>
              scored["MaxMovesScore"].score = scored["StandardScore"].score

(***************************************************************************)
(* Runs of several users against the same repositories.                    *)
(***************************************************************************)
TwoUsers == {"u1", "u2"}

\* with two users a session is moved only while its log is short
ShortLog(u) ==
    u \in DOMAIN state =>
        (is_terminal(state[u].status) \/ Len(state[u].event_log) + 2 <= MaxUsersLog)

MoveWhileShort(u, lid, direction) ==
    /\ ShortLog(u)
    /\ Move(u, lid, direction)

InitUsers ==
    /\ defn = TwoStepDefn
    /\ levels = <<>>
    /\ loadResult = "pending"
    /\ state = <<>>
    /\ saves = <<>>
    /\ history = <<>>
    /\ lastOp = Op("none", "none", "none", "none", "none")
    /\ scored = <<>>
    /\ contexts = <<>>
    /\ issued = <<>>
    /\ returned = <<>>

NextUsers ==
    \/ LoadLevel
    \/ \E u \in TwoUsers, lid \in LevelIds : StartNewRun(u, lid)
    \/ \E u \in TwoUsers, lid \in LevelIds : RestartRun(u, lid)
    \/ \E u \in TwoUsers : AbandonRun(u)
    \/ \E u \in TwoUsers : RestoreRun(u)
    \/ \E u \in TwoUsers, lid \in LevelIds, direction \in {"East", "North"} :
          MoveWhileShort(u, lid, direction)
    \/ \E u \in TwoUsers, lid \in LevelIds : Pickup(u, lid)

SpecUsers == InitUsers /\ [][NextUsers]_vars

\* C17: the active-session store never holds more than one record of a user
C17_OneSavePerUser ==
    \A u \in TwoUsers : Cardinality(Matching(saves, u)) <= 1

\* both users have a record, and the first user's was overwritten by a later save
C17_Witness ==
    /\ \A u \in TwoUsers : HasActive(saves, u)
    /\ Len(saves) = 2
    /\ get_active(saves, "u1").state.move_count > 0
    /\ lastOp.user = "u1"

(***************************************************************************)
(* Invariants of a session.                                                *)
(***************************************************************************)
\* C19: in every session state reached from start_new_run by move and pickup
\* calls the player's location is a room of the level's map and is one of the
\* visited rooms
C19_LocationValidAndVisited ==
    \A u \in DOMAIN state :
        /\ KnownLevelId \in DOMAIN levels
        /\ state[u].location \in DOMAIN levels[KnownLevelId].rooms
        /\ state[u].location \in state[u].visited_rooms

\* a session that has walked to a third room and was then asked to pick up
C19_Witness ==
    /\ lastOp.op = "pickup"
    /\ Caller \in DOMAIN state
    /\ state[Caller].move_count >= 2
    /\ state[Caller].location # levels[KnownLevelId].start_room
    /\ Cardinality(state[Caller].visited_rooms) = 3

\* the call just made was a move of an IN_PROGRESS session through an exit
StepCalled ==
    /\ Called("move")
    /\ state[lastOp'.user].status = IN_PROGRESS
    /\ ~Unknown(lastOp'.level_id)
    /\ lastOp'.direction \in
           DOMAIN levels[lastOp'.level_id].rooms[state[lastOp'.user].location].exits

\* C20: over move, pickup and abandon_run calls on a session move_count never
\* decreases; a move through an exit adds one to it, and every other call (a wall
\* bump, a pickup, a call on a terminal state, a failed call) leaves it unchanged
C20_MoveCountMonotonic ==
    [][ (Called("move") \/ Called("pickup") \/ Called("abandon_run")) =>
            LET before == state[lastOp'.user].move_count
                after == state'[lastOp'.user].move_count
            IN  /\ after >= before
                /\ StepCalled => after = before + 1
                /\ ~StepCalled => after = before ]_vars

\* a pickup on a session that had made two moves left the count at two
C20_Witness ==
    /\ lastOp.op = "pickup"
    /\ Caller \in DOMAIN state
    /\ state[Caller].status = IN_PROGRESS
    /\ state[Caller].move_count = 2
    /\ state[Caller].message = "Nothing to pick up."

(***************************************************************************)
(* Interleaved runs: two execution contexts call the controller for the    *)
(* same user, and every repository call is one atomic step.  A context     *)
(* holds the GameState its last call returned (held), the state a start is  *)
(* building (work) and the repository calls its current call has still to   *)
(* make (todo).                                                            *)
(***************************************************************************)
Contexts == {"a", "b"}
SharedUser == "u1"

\* restart_run that deletes after it has started the new run
RestartCalls_delete_last == <<"levels.get", "saves.upsert_active", "saves.delete_active">>

\* the repository calls of restart_run on a known level, in order
RestartCalls == <<"saves.delete_active", "levels.get", "saves.upsert_active">>

\* the repository calls of start_new_run on a known level, in order
StartCalls == <<"levels.get", "saves.upsert_active">>

IdleContext ==
    [todo |-> <<>>, op |-> "none", level_id |-> "none", direction |-> "none",
     held |-> <<>>, work |-> <<>>, score |-> 0, begun |-> FALSE, raced |-> FALSE]

Idle(c) == contexts[c].todo = <<>>

Call(c, op, level_id, direction, passed) ==
    [ctx |-> c, op |-> op, level_id |-> level_id, direction |-> direction,
     passed |-> passed]

\* context c issues op: the call is logged and its repository calls are planned
Issue(c, op, level_id, direction, todo) ==
    /\ issued' = Append(issued, Call(c, op, level_id, direction,
                                     IF op = "move" THEN contexts[c].held ELSE <<>>))
    /\ contexts' = [contexts EXCEPT ![c].todo = todo, ![c].op = op,
                                    ![c].level_id = level_id,
                                    ![c].direction = direction,
                                    ![c].work = <<>>, ![c].begun = FALSE]
    /\ UNCHANGED <<defn, levels, loadResult, state, saves, history, lastOp, scored, returned>>

\* a context issues a call when its last one has returned
MayIssue(c) == Idle(c) /\ Len(issued) < MaxCalls

IssueStartNewRun(c, level_id) ==
    /\ MayIssue(c)
    /\ Issue(c, "start_new_run", level_id, "none", StartCalls)

IssueRestartRun(c, level_id) ==
    /\ MayIssue(c)
    /\ Issue(c, "restart_run", level_id, "none", RestartCalls)

IssueRestoreRun(c) ==
    /\ MayIssue(c)
    /\ Issue(c, "restore_run", "none", "none", <<"saves.get_active">>)

\* move on a held state that is IN_PROGRESS; the level lookup comes first
IssueMove(c, level_id, direction) ==
    /\ MayIssue(c)
    /\ contexts[c].held # <<>>
    /\ ~is_terminal(contexts[c].held[1].status)
    /\ Issue(c, "move", level_id, direction, <<"levels.get">>)

\* move on a held state that is terminal makes no repository call
IssueMoveEnded(c, level_id, direction) ==
    /\ MayIssue(c)
    /\ contexts[c].held # <<>>
    /\ is_terminal(contexts[c].held[1].status)
    /\ issued' = Append(issued, Call(c, "move", level_id, direction, contexts[c].held))
    /\ contexts' = [contexts EXCEPT ![c].held =
                       <<[contexts[c].held[1] EXCEPT !.message = "Game already ended."]>>]
    /\ UNCHANGED <<defn, levels, loadResult, state, saves, history, lastOp, scored, returned>>

\* what the level lookup of a call leads to: the context after it
AfterLevelsGet(me, rest) ==
    IF Unknown(me.level_id) THEN [me EXCEPT !.todo = <<>>]
    ELSE IF me.op \in {"start_new_run", "restart_run"}
    THEN [me EXCEPT !.todo = rest,
                    !.work = <<start_new_run(<<>>, SharedUser, me.level_id).state>>]
    ELSE LET lvl == levels[me.level_id]
             s == me.held[1]
             room == lvl.rooms[s.location]
         IN  IF me.direction \notin DOMAIN room.exits
             THEN [me EXCEPT !.held = <<wall_bump(s)>>,
                             !.todo = <<"saves.upsert_active">>]
             ELSE LET next_room == room.exits[me.direction]
                      ruled == hook_and_rules(lvl,
                                   perform_movement(s, me.direction, next_room),
                                   lvl.rooms[next_room])
                  IN  [me EXCEPT !.held = <<ruled>>,
                                 !.todo = IF is_terminal(ruled.status)
                                          THEN <<"levels.get (finalize)">>
                                          ELSE <<"saves.upsert_active">>]

\* the lookup in _persist_or_finalize and the score calculation after it
AfterFinalizeGet(me) ==
    LET sc == calculate(me.held[1], levels[me.level_id])
    IN  IF sc.raised # "none" THEN [me EXCEPT !.todo = <<>>]
        ELSE [me EXCEPT !.score = sc.score,
                        !.todo = <<"history.add", "saves.delete_active">>]

StoreWrites == {"saves.upsert_active", "saves.delete_active", "history.add"}

\* context c makes the next repository call of its current call
RepoCall(c) ==
    /\ ~Idle(c)
    /\ LET me == contexts[c]
           step == Head(me.todo)
           rest == Tail(me.todo)
           saved == IF me.op = "move" THEN me.held[1] ELSE me.work[1]
           after ==
               CASE step = "levels.get" -> AfterLevelsGet(me, rest)
                 [] step = "levels.get (finalize)" -> AfterFinalizeGet(me)
                 [] step = "saves.get_active" ->
                       [me EXCEPT !.todo = rest,
                                  !.held = IF HasActive(saves, SharedUser)
                                           THEN <<get_active(saves, SharedUser).state>>
                                           ELSE @]
                 [] step = "saves.upsert_active" ->
                       [me EXCEPT !.todo = rest,
                                  !.held = IF me.op = "move" THEN @ ELSE me.work]
                 [] OTHER -> [me EXCEPT !.todo = rest]
       IN  /\ saves' = CASE step = "saves.upsert_active" ->
                              upsert_active(saves, SharedUser, me.level_id, saved)
                         [] step = "saves.delete_active" ->
                              delete_active(saves, SharedUser)
                         [] OTHER -> saves
           /\ history' = IF step = "history.add"
                         THEN add(history, GameResult(SharedUser, me.level_id, me.held[1],
                                                      me.score, levels[me.level_id]))
                         ELSE history
           /\ contexts' = [d \in Contexts |->
                             IF d = c THEN [after EXCEPT !.begun = TRUE]
                             ELSE [contexts[d] EXCEPT !.raced =
                                      @ \/ (/\ step \in StoreWrites
                                            /\ contexts[d].begun
                                            /\ contexts[d].todo # <<>>)]]
    /\ UNCHANGED <<defn, levels, loadResult, state, lastOp, scored, issued, returned>>

InitConc ==
    /\ defn \in {ScenarioDefn, TwoStepDefn}
    /\ levels = (defn.id :> from_definition(defn).levels[1])
    /\ loadResult = "loaded"
    /\ state = <<>>
    /\ saves = <<>>
    /\ history = <<>>
    /\ lastOp = Op("none", "none", "none", "none", "none")
    /\ scored = <<>>
    /\ contexts = [c \in Contexts |-> IdleContext]
    /\ issued = <<>>
    /\ returned = <<>>

NextConc ==
    \/ \E c \in Contexts, lid \in LevelIds : IssueStartNewRun(c, lid)
    \/ \E c \in Contexts, lid \in LevelIds : IssueRestartRun(c, lid)
    \/ \E c \in Contexts : IssueRestoreRun(c)
    \/ \E c \in Contexts, lid \in LevelIds, direction \in {"East", "North"} :
          IssueMove(c, lid, direction)
    \/ \E c \in Contexts, lid \in LevelIds, direction \in {"East", "North"} :
          IssueMoveEnded(c, lid, direction)
    \/ \E c \in Contexts : RepoCall(c)

SpecConc == InitConc /\ [][NextConc]_vars

\* the stores after one call made alone, with nothing in between its steps
SerialApply(call, stores) ==
    CASE call.op = "start_new_run" ->
            IF Unknown(call.level_id) THEN stores
            ELSE [stores EXCEPT !.saves =
                     start_new_run(stores.saves, SharedUser, call.level_id).saves]
      [] call.op = "restart_run" ->
            IF Unknown(call.level_id)
            THEN [stores EXCEPT !.saves = delete_active(stores.saves, SharedUser)]
            ELSE [stores EXCEPT !.saves =
                     start_new_run(delete_active(stores.saves, SharedUser),
                                   SharedUser, call.level_id).saves]
      [] call.op = "move" ->
            LET r == move(stores.saves, stores.history, SharedUser, call.level_id,
                          call.passed[1], call.direction)
            IN  [saves |-> r.saves, history |-> r.history]
      [] OTHER -> stores

RECURSIVE SerialOutcomes(_, _, _)
\* the stores every serial order of the calls leads to, each context's calls
\* taken in the order it made them
SerialOutcomes(as, bs, stores) ==
    IF as = <<>> /\ bs = <<>> THEN {stores}
    ELSE (IF as # <<>>
          THEN SerialOutcomes(Tail(as), bs, SerialApply(Head(as), stores)) ELSE {})
         \cup
         (IF bs # <<>>
          THEN SerialOutcomes(as, Tail(bs), SerialApply(Head(bs), stores)) ELSE {})

CallsOf(c) == SelectSeq(issued, LAMBDA e : e.ctx = c)

\* C18: once the interleaved calls of the two contexts have all returned, the
\* active-session store and the history store are those of some serial order of
\* the same calls
C18_Serializable ==
    (\A c \in Contexts : Idle(c)) =>
        [saves |-> saves, history |-> history]
            \in SerialOutcomes(CallsOf("a"), CallsOf("b"),
                               [saves |-> <<>>, history |-> <<>>])

\* a restart_run of one context had a save of the other context's move written
\* between its delete and its upsert, and all calls have returned
C18_Witness ==
    /\ \A c \in Contexts : Idle(c)
    /\ Len(issued) = MaxCalls
    /\ contexts["a"].raced
    /\ Len(CallsOf("a")) = 1
    /\ CallsOf("a")[1].op = "restart_run"
    /\ ~Unknown(CallsOf("a")[1].level_id)
    /\ \E i \in DOMAIN issued : issued[i].ctx = "b" /\ issued[i].op = "move"
    /\ HasActive(saves, SharedUser)

(***************************************************************************)
(* The rules applied twice, and what pickup leaves alone.                  *)
(***************************************************************************)
\* C21: when StandardRules.check has made a state terminal, applying it again
\* with that state and the same room leaves the status and the message as the
\* first application set them
C21_CheckIdempotent ==
    \A u \in DOMAIN state : \A lid \in DOMAIN levels : \A r \in DOMAIN levels[lid].rooms :
        LET room == levels[lid].rooms[r]
            first == check(levels[lid].required_items, state[u], room)
            second == check(levels[lid].required_items, first, room)
        IN  first.status \in Terminal =>
                /\ second.status = first.status
                /\ second.message = first.message

\* a move has just won the session: the rules made the state COMPLETED, and a
\* second application in the villain's room is defined on it
C21_Witness ==
    /\ lastOp.op = "move"
    /\ Caller \in DOMAIN state
    /\ state[Caller].status = COMPLETED
    /\ state[Caller].message = "You defeated the villain!"
    /\ \E lid \in DOMAIN levels :
          /\ levels[lid].rooms[state[Caller].location].item.type = "villain"
          /\ check(levels[lid].required_items, state[Caller],
                   levels[lid].rooms[state[Caller].location]).status = COMPLETED

\* C22: a pickup on an IN_PROGRESS session changes only the message and saves
\* the session: location, visited rooms, collected items, move count, status,
\* event log and the history stay; a pickup on an ended session only sets the
\* message and writes to neither store
C22_PickupFrame ==
    [][ Called("pickup") =>
            LET u == lastOp'.user
                s == state[u]
                t == state'[u]
            IN  /\ s.status = IN_PROGRESS =>
                      /\ t = [s EXCEPT !.message = "Nothing to pick up."]
                      /\ HasActive(saves', u)
                      /\ get_active(saves', u).state = t
                      /\ history' = history
                /\ s.status \in Terminal =>
                      /\ t = [s EXCEPT !.message = "Game already ended."]
                      /\ saves' = saves
                      /\ history' = history ]_vars

\* a pickup on a running session that had collected a relic and logged entries
C22_Witness ==
    /\ lastOp.op = "pickup" /\ lastOp.raised = "none"
    /\ Caller \in DOMAIN state
    /\ state[Caller].status = IN_PROGRESS
    /\ state[Caller].message = "Nothing to pick up."
    /\ state[Caller].collected_items # {}
    /\ state[Caller].event_log # <<>>
    /\ state[Caller].move_count = 1
    /\ HasActive(saves, Caller)
    /\ get_active(saves, Caller).state = state[Caller]

(***************************************************************************)
(* The search and the levels the factory returns.                          *)
(***************************************************************************)
\* C25: on every structurally valid definition compute_optimal_moves ends, with
\* a move count (the level is built with it) or with LevelValidationError, and
\* it expands each (room, item-set) pair at most once, the item sets being
\* subsets of the required items
C25_SearchTerminates ==
    (JustLoaded /\ Searched(defn)) =>
        LET found == compute_optimal_moves(defn.rooms, defn.start_room, defn.required_items)
        IN  /\ \A i, j \in DOMAIN found.expanded :
                  i # j => found.expanded[i] # found.expanded[j]
            /\ \A i \in DOMAIN found.expanded :
                  /\ found.expanded[i][1] \in DOMAIN defn.rooms
                  /\ found.expanded[i][2] \subseteq defn.required_items
            /\ Len(found.expanded) <= WalkBound(defn)
            /\ found.raised => loadResult = "LevelValidationError"
            /\ ~found.raised =>
                  /\ found.dist \in 0..WalkBound(defn)
                  /\ loadResult = "loaded"
                  /\ levels[defn.id].optimal_moves = found.dist

\* the search ran on a map with a cycle between Start and Hall, met Start again
\* and ended after expanding four pairs
C25_Witness ==
    /\ JustLoaded /\ Searched(defn)
    /\ "East" \in DOMAIN defn.rooms["Start"].exits
    /\ "West" \in DOMAIN defn.rooms["Hall"].exits
    /\ defn.rooms["Start"].exits["East"] = "Hall"
    /\ defn.rooms["Hall"].exits["West"] = "Start"
    /\ Len(compute_optimal_moves(defn.rooms, defn.start_room,
                                 defn.required_items).expanded) >= 4

\* C26: every level the factory returns has exactly one room whose item is the
\* villain, and a definition with no or with more than one villain-type item is
\* rejected with LevelValidationError
C26_ExactlyOneVillain ==
    JustLoaded =>
        /\ loadResult = "loaded" =>
              Cardinality(VillainRooms(levels[defn.id].rooms)) = 1
        /\ Cardinality(VillainRooms(defn.rooms)) # 1 =>
              /\ loadResult = "LevelValidationError"
              /\ levels = <<>>

\* a definition with a villain in Hall and another in End was rejected
C26_Witness ==
    /\ JustLoaded
    /\ loadResult = "LevelValidationError"
    /\ VillainRooms(defn.rooms) = {"Hall", "End"}
    /\ RequiredKeys \subseteq defn.keys
    /\ levels = <<>>

\* C27: every level the factory accepts has an optimal_moves greater than zero
C27_OptimalMovesPositive ==
    loadResult = "loaded" => levels[defn.id].optimal_moves > 0

(***************************************************************************)
(* What the interface may show: the three visibility policies applied to   *)
(* the sessions of a level.                                                *)
(***************************************************************************)
Policies == {"EasyVisibility", "MediumVisibility", "HardVisibility"}

LevelUIProjection(show_full_map, show_items, show_villain, discovered_rooms) ==
    [show_full_map |-> show_full_map, show_items |-> show_items,
     show_villain |-> show_villain, discovered_rooms |-> discovered_rooms]

\* a projection that reveals everything under every policy
project_all_revealed(policy, lvl, s) ==
    LevelUIProjection(TRUE, TRUE, TRUE, DOMAIN lvl.rooms)

\* EasyVisibility.project, MediumVisibility.project, HardVisibility.project
project(policy, lvl, s) ==
    CASE policy = "EasyVisibility" ->
            LevelUIProjection(TRUE, TRUE, TRUE, DOMAIN lvl.rooms)
      [] policy = "MediumVisibility" ->
            LevelUIProjection(TRUE, FALSE, FALSE, DOMAIN lvl.rooms)
      [] policy = "HardVisibility" ->
            LevelUIProjection(FALSE, FALSE, FALSE, s.visited_rooms \cup {s.location})

ViewDefinitions == {ScenarioDefn, TwoStepDefn}

InitView ==
    /\ defn \in ViewDefinitions
    /\ levels = <<>>
    /\ loadResult = "pending"
    /\ state = <<>>
    /\ saves = <<>>
    /\ history = <<>>
    /\ lastOp = Op("none", "none", "none", "none", "none")
    /\ scored = <<>>
    /\ contexts = <<>>
    /\ issued = <<>>
    /\ returned = <<>>

\* a policy projects the level of the caller's session
Project(u, lid, policy) ==
    /\ u \in DOMAIN state
    /\ lid \in DOMAIN levels
    /\ returned' = <<[policy |-> policy, view |-> project(policy, levels[lid], state[u])]>>
    /\ lastOp' = Op("project", u, lid, "none", "none")
    /\ UNCHANGED <<defn, levels, loadResult, state, saves, history, scored, contexts, issued>>

NextView ==
    \/ LoadLevel
    \/ \E u \in Users, lid \in LevelIds : StartNewRun(u, lid)
    \/ \E u \in Users, lid \in LevelIds : RestartRun(u, lid)
    \/ \E u \in Users : AbandonRun(u)
    \/ \E u \in Users : RestoreRun(u)
    \/ \E u \in Users, lid \in LevelIds, direction \in AskedDirections : Move(u, lid, direction)
    \/ \E u \in Users, lid \in LevelIds : Pickup(u, lid)
    \/ \E u \in Users, lid \in LevelIds, policy \in Policies : Project(u, lid, policy)

SpecView == InitView /\ [][NextView]_vars

\* C23: for every session state reached and each visibility policy, project
\* returns discovered_rooms within the rooms of the level; under the fog-of-war
\* policy discovered_rooms is the visited rooms together with the player's
\* location, and show_items and show_villain are false
C23_ProjectionWithinLevel ==
    lastOp.op = "project" =>
        LET s == state[lastOp.user]
            lvl == levels[lastOp.level_id]
            r == returned[1]
        IN  /\ r.view.discovered_rooms \subseteq DOMAIN lvl.rooms
            /\ r.policy = "HardVisibility" =>
                  /\ r.view.discovered_rooms = s.visited_rooms \cup {s.location}
                  /\ ~r.view.show_items
                  /\ ~r.view.show_villain

\* the fog-of-war policy projected a session that had seen two of three rooms
C23_Witness ==
    /\ lastOp.op = "project"
    /\ returned[1].policy = "HardVisibility"
    /\ state[lastOp.user].move_count = 1
    /\ Cardinality(returned[1].view.discovered_rooms) = 2
    /\ returned[1].view.discovered_rooms # DOMAIN levels[lastOp.level_id].rooms

(***************************************************************************)
(* The serialization round trip, on game states of every shape: a state    *)
(* is written to a dictionary and read back.                               *)
(***************************************************************************)
LogEntries == {"Moved East to End", "Collected X"}

\* the event logs of at most MaxSerialLog entries, repeated entries included
SerialLogs == UNION { [1..k -> LogEntries] : k \in 0..MaxSerialLog }

\* GameState objects, a non-empty Player.inventory included
SerialStates ==
    [location : {"Start", "End"},
     inventory : SUBSET {"X", "Y"},
     visited_rooms : {{"Start"}, {"Start", "End"}},
     collected_items : {{}, {"X"}, {"X", "Y"}},
     move_count : {0, 1},
     status : {IN_PROGRESS, COMPLETED, GAME_OVER},
     message : {None, "Nothing to pick up."},
     event_log : SerialLogs,
     encountered_villain : BOOLEAN]

SerialUser == "u1"

InitSerial ==
    /\ defn = ScenarioDefn
    /\ levels = <<>>
    /\ loadResult = "pending"
    /\ state \in {(SerialUser :> s) : s \in SerialStates}
    /\ saves = <<>>
    /\ history = <<>>
    /\ lastOp = Op("none", "none", "none", "none", "none")
    /\ scored = <<>>
    /\ contexts = <<>>
    /\ issued = <<>>
    /\ returned = <<>>

\* gamestate_to_dict(state)
ToDict ==
    /\ returned = <<>>
    /\ returned' = <<[data |-> gamestate_to_dict(state[SerialUser]), restored |-> <<>>]>>
    /\ lastOp' = Op("gamestate_to_dict", SerialUser, "none", "none", "none")
    /\ UNCHANGED <<defn, levels, loadResult, state, saves, history, scored, contexts, issued>>

\* gamestate_from_dict(data) of the dictionary just written
FromDict ==
    /\ returned # <<>>
    /\ returned[1].restored = <<>>
    /\ returned' = <<[returned[1] EXCEPT !.restored = <<gamestate_from_dict(returned[1].data)>>]>>
    /\ lastOp' = Op("gamestate_from_dict", SerialUser, "none", "none", "none")
    /\ UNCHANGED <<defn, levels, loadResult, state, saves, history, scored, contexts, issued>>

NextSerial ==
    \/ ToDict
    \/ FromDict

SpecSerial == InitSerial /\ [][NextSerial]_vars

\* C24: gamestate_from_dict(gamestate_to_dict(s)) has the location, inventory,
\* collected items, move count, status and event log (in order) of s
C24_RoundTrip ==
    lastOp.op = "gamestate_from_dict" =>
        LET s == state[SerialUser]
            t == returned[1].restored[1]
        IN  /\ t.location = s.location
            /\ t.inventory = s.inventory
            /\ t.collected_items = s.collected_items
            /\ t.move_count = s.move_count
            /\ t.status = s.status
            /\ t.event_log = s.event_log

\* a won state with two items in the inventory and the same entry logged twice
\* went through the dictionary, in which the status is a string
C24_Witness ==
    /\ lastOp.op = "gamestate_from_dict"
    /\ state[SerialUser].inventory = {"X", "Y"}
    /\ state[SerialUser].status = COMPLETED
    /\ Len(state[SerialUser].event_log) = 2
    /\ state[SerialUser].event_log[1] = state[SerialUser].event_log[2]
    /\ returned[1].data.status = "completed"
    /\ Len(returned[1].data.player.inventory) = 2

(***************************************************************************)
(* The history store under the controller.  The store outlives a           *)
(* controller, so it may hold results from before; Level.scoring is        *)
(* declared a ScoreStrategy, so the level source is taken to hold the      *)
(* factory's level with, in turn, what the factory stores in that field    *)
(* and each of the two strategies.                                         *)
(***************************************************************************)
\* a result stored before the controller was constructed
EarlierResult ==
    [user_email |-> "u0", level_id |-> KnownLevelId, status |-> StatusValue(COMPLETED),
     score |-> WIN_BASE, moves |-> 1, items_collected |-> 1,
     snapshot |-> [final_room |-> "End", inventory |-> <<"X">>,
                   encountered_villain |-> TRUE, optimal_moves |-> 1]]

HistoryDefinitions == {ScenarioDefn, TwoStepDefn}

InitHistory ==
    /\ defn \in HistoryDefinitions
    /\ \E sc \in Strategies \cup {ScoringOf(defn.difficulty)} :
          levels = (defn.id :> [from_definition(defn).levels[1] EXCEPT !.scoring = sc])
    /\ loadResult = "loaded"
    /\ state = <<>>
    /\ saves = <<>>
    /\ history \in {<<>>, <<EarlierResult>>}
    /\ lastOp = Op("none", "none", "none", "none", "none")
    /\ scored = <<>>
    /\ contexts = <<>>
    /\ issued = <<>>
    /\ returned = <<>>

\* a move while the history store has room for one more result
MoveWhileRoom(u, lid, direction) ==
    /\ Len(history) < MaxHistory
    /\ Move(u, lid, direction)

NextHistory ==
    \/ \E u \in Users, lid \in LevelIds : StartNewRun(u, lid)
    \/ \E u \in Users, lid \in LevelIds : RestartRun(u, lid)
    \/ \E u \in Users : AbandonRun(u)
    \/ \E u \in Users : RestoreRun(u)
    \/ \E u \in Users, lid \in LevelIds, direction \in AskedDirections :
          MoveWhileRoom(u, lid, direction)
    \/ \E u \in Users, lid \in LevelIds : Pickup(u, lid)

SpecHistory == InitHistory /\ [][NextHistory]_vars

\* C28: over every controller operation the history only grows by appending:
\* the results stored before the step are still there, in place and unchanged,
\* at most one result is added behind them, and every result has the status
\* COMPLETED or GAME_OVER
C28_HistoryAppendOnly ==
    [][ /\ Len(history') \in {Len(history), Len(history) + 1}
        /\ SubSeq(history', 1, Len(history)) = history
        /\ \A i \in DOMAIN history' :
              history'[i].status \in {StatusValue(COMPLETED), StatusValue(GAME_OVER)} ]_vars

\* a move ended a run and its result was added behind the one stored before
C28_Witness ==
    /\ lastOp.op = "move" /\ lastOp.raised = "none"
    /\ Caller \in DOMAIN state
    /\ state[Caller].status \in Terminal
    /\ Len(history) = 2
    /\ history[1] = EarlierResult
    /\ history[2].user_email = Caller
    /\ history[2].status = StatusValue(state[Caller].status)

(***************************************************************************)
(* The leaderboard query of the in-memory history repository.              *)
(***************************************************************************)
\* the generator of top_scores: the results of one level, in stored order
OfLevel(h, level_id) == SelectSeq(h, LAMBDA r : r.level_id = level_id)

RECURSIVE sorted_ascending(_)
\* sorted(results, key=score): stable, the lowest score first
sorted_ascending(rs) ==
    IF rs = <<>> THEN <<>>
    ELSE LET rest == sorted_ascending(SubSeq(rs, 1, Len(rs) - 1))
             last == rs[Len(rs)]
             k == Cardinality({i \in DOMAIN rest : rest[i].score <= last.score})
         IN  SubSeq(rest, 1, k) \o <<last>> \o SubSeq(rest, k + 1, Len(rest))

RECURSIVE sorted_by_score(_)
\* sorted(results, key=score, reverse=True): stable, the highest score first,
\* results of equal score in stored order
sorted_by_score(rs) ==
    IF rs = <<>> THEN <<>>
    ELSE LET rest == sorted_by_score(SubSeq(rs, 1, Len(rs) - 1))
             last == rs[Len(rs)]
             k == Cardinality({i \in DOMAIN rest : rest[i].score >= last.score})
         IN  SubSeq(rest, 1, k) \o <<last>> \o SubSeq(rest, k + 1, Len(rest))

\* a_list[:limit]
UpTo(rs, limit) ==
    IF limit >= 0 THEN SubSeq(rs, 1, Min(limit, Len(rs)))
    ELSE SubSeq(rs, 1, Max(Len(rs) + limit, 0))

\* a leaderboard sorted without reverse
top_scores_ascending(h, level_id, limit) ==
    UpTo(sorted_ascending(OfLevel(h, level_id)), limit)

\* InMemoryHistoryRepository.top_scores
top_scores(h, level_id, limit) ==
    UpTo(sorted_by_score(OfLevel(h, level_id)), limit)

BoardScores == {0, WIN_BASE, WIN_BASE + MAX_PROGRESS_SCORE}

\* the results handed to add
BoardResults ==
    {[EarlierResult EXCEPT !.level_id = l, !.score = sc] : l \in LevelIds, sc \in BoardScores}

InitBoard ==
    /\ defn = ScenarioDefn
    /\ levels = <<>>
    /\ loadResult = "pending"
    /\ state = <<>>
    /\ saves = <<>>
    /\ history = <<>>
    /\ lastOp = Op("none", "none", "none", "none", "none")
    /\ scored = <<>>
    /\ contexts = <<>>
    /\ issued = <<>>
    /\ returned = <<>>

\* repo.add(result), which returns nothing
AddResult(r) ==
    /\ Len(history) < MaxBoard
    /\ history' = add(history, r)
    /\ returned' = <<>>
    /\ lastOp' = Op("add", r.user_email, r.level_id, "none", "none")
    /\ UNCHANGED <<defn, levels, loadResult, state, saves, scored, contexts, issued>>

\* repo.top_scores(level_id, limit)
TopScores(level_id, limit) ==
    /\ returned' = <<[level_id |-> level_id, limit |-> limit,
                      results |-> top_scores(history, level_id, limit)]>>
    /\ lastOp' = Op("top_scores", "none", level_id, "none", "none")
    /\ UNCHANGED <<defn, levels, loadResult, state, saves, history, scored, contexts, issued>>

NextBoard ==
    \/ \E r \in BoardResults : AddResult(r)
    \/ \E lid \in LevelIds, limit \in 0..MaxLimit : TopScores(lid, limit)

SpecBoard == InitBoard /\ [][NextBoard]_vars

\* how often r occurs in rs
Count(rs, r) == Cardinality({i \in DOMAIN rs : rs[i] = r})

KeptEntries == 19

\* the most entries a log of the earlier controller holds
LogLimit == KeptEntries + 1

InitBump ==
    /\ defn = ScenarioDefn
    /\ levels = <<>>
    /\ loadResult = "pending"
    /\ state = <<>>
    /\ saves = <<>>
    /\ history = <<>>
    /\ lastOp = Op("none", "none", "none", "none", "none")
    /\ scored = <<>>
    /\ contexts = <<>>
    /\ issued = <<>>
    /\ returned = <<>>

\* GameController.move, explored up to MaxBumpLog log entries
LongMove(u, lid, direction) ==
    /\ u \in DOMAIN state
    /\ is_terminal(state[u].status) \/ Len(state[u].event_log) + 2 <= MaxBumpLog
    /\ LET r == move(saves, history, u, lid, state[u], direction)
       IN  /\ state' = Put(state, u, r.state)
           /\ saves' = r.saves
           /\ history' = r.history
           /\ lastOp' = Op("move", u, lid, direction, r.raised)
    /\ UNCHANGED <<defn, levels, loadResult, aside>>

NextBump ==
    \/ LoadLevel
    \/ \E u \in Users : StartNewRun(u, KnownLevelId)
    \/ \E u \in Users, direction \in {"East", "North"} : LongMove(u, KnownLevelId, direction)
    \/ \E u \in Users : Pickup(u, KnownLevelId)

SpecBump == InitBump /\ [][NextBump]_vars

\* C30: the event log of a session is bounded: after any sequence of move and
\* pickup calls, wall bumps included, it holds at most the 20 entries the
\* earlier controller keeps
C30_EventLogBounded ==
    \A u \in DOMAIN state : Len(state[u].event_log) <= LogLimit

(***************************************************************************)
(* A movement along an exit.                                               *)
(***************************************************************************)
\* C31: a move on an IN_PROGRESS state in a direction that is an exit of the
\* current room puts the player in the exit's target room, adds exactly 1 to
\* move_count, adds the target room to visited_rooms and appends a movement
\* entry to the event log
C31_MoveAlongExit ==
    [][ (/\ Called("move")
         /\ state[lastOp'.user].status = IN_PROGRESS
         /\ lastOp'.level_id \in DOMAIN levels
         /\ lastOp'.direction \in
                DOMAIN levels[lastOp'.level_id].rooms[state[lastOp'.user].location].exits) =>
            LET s == state[lastOp'.user]
                t == state'[lastOp'.user]
                target == levels[lastOp'.level_id].rooms[s.location].exits[lastOp'.direction]
                n == Len(s.event_log)
            IN  /\ t.location = target
                /\ t.move_count = s.move_count + 1
                /\ t.visited_rooms = s.visited_rooms \cup {target}
                /\ Len(t.event_log) > n
                /\ SubSeq(t.event_log, 1, n) = s.event_log
                /\ t.event_log[n + 1] = "Moved " \o lastOp'.direction \o " to " \o target ]_vars

\* a session walked East to Hall and then West, back into the start room
C31_Witness ==
    /\ lastOp.op = "move" /\ lastOp.direction = "West"
    /\ Caller \in DOMAIN state
    /\ state[Caller].location = "Start"
    /\ state[Caller].move_count = 2
    /\ state[Caller].visited_rooms = {"Start", "Hall"}
    /\ state[Caller].event_log[Len(state[Caller].event_log)] = "Moved West to Start"

(***************************************************************************)
(* Starting and restarting a run.                                          *)
(***************************************************************************)
\* C33: start_new_run and restart_run with a known level id return a state that
\* is IN_PROGRESS, at the level's start_room, with visited_rooms = {start_room},
\* move_count 0 and no encountered villain; the user's one active-session record
\* then holds this state and the level id, and no result is written
C33_StartReturnsFreshState ==
    [][ (lastOp'.op \in {"start_new_run", "restart_run"}
            /\ lastOp'.level_id \in DOMAIN levels) =>
            LET u == lastOp'.user
                lvl == levels[lastOp'.level_id]
                t == state'[u]
            IN  /\ lastOp'.raised = "none"
                /\ t.status = IN_PROGRESS
                /\ t.location = lvl.start_room
                /\ t.visited_rooms = {lvl.start_room}
                /\ t.move_count = 0
                /\ ~t.encountered_villain
                /\ Cardinality(Matching(saves', u)) = 1
                /\ get_active(saves', u).level_id = lastOp'.level_id
                /\ get_active(saves', u).state = t
                /\ history' = history ]_vars

\* restart_run returned: the fresh state is the saved one and the history is empty
C33_Witness ==
    /\ lastOp.op = "restart_run" /\ lastOp.raised = "none"
    /\ Caller \in DOMAIN state
    /\ state[Caller].move_count = 0
    /\ state[Caller].visited_rooms = {"Start"}
    /\ state[Caller].event_log = <<>>
    /\ HasActive(saves, Caller)
    /\ get_active(saves, Caller).state = state[Caller]
    /\ history = <<>>

(***************************************************************************)
(* What a terminal status says about the session.                          *)
(***************************************************************************)
\* C35: in every session state reached through the controller, COMPLETED implies
\* that collected_items contains every required item, and GAME_OVER implies
\* that some required item is not in collected_items
C35_StatusMatchesItems ==
    \A u \in DOMAIN state : \A lid \in DOMAIN levels :
        /\ state[u].status = COMPLETED =>
              levels[lid].required_items \subseteq state[u].collected_items
        /\ state[u].status = GAME_OVER =>
              \E x \in levels[lid].required_items : x \notin state[u].collected_items

\* a session won after two moves, holding the one item the level requires
C35_Witness ==
    \E u \in DOMAIN state : \E lid \in DOMAIN levels :
        /\ state[u].status = COMPLETED
        /\ state[u].move_count = 2
        /\ levels[lid].required_items = {"Y"}
        /\ state[u].collected_items = {"Y"}

\* C36: in every session state reached through the controller the status is
\* terminal exactly if encountered_villain is true, and a terminal status
\* implies that the player is in the room that holds the villain
C36_TerminalIffVillain ==
    \A u \in DOMAIN state : \A lid \in DOMAIN levels :
        /\ state[u].status \in Terminal <=> state[u].encountered_villain
        /\ state[u].status \in Terminal =>
              state[u].location \in VillainRooms(levels[lid].rooms)

\* a session that lost in Hall, where the villain is, was moved again
C36_Witness ==
    /\ lastOp.op = "move"
    /\ Caller \in DOMAIN state
    /\ state[Caller].status = GAME_OVER
    /\ state[Caller].message = "Game already ended."
    /\ state[Caller].location = "Hall"
    /\ state[Caller].encountered_villain

(***************************************************************************)
(* Relics of visited rooms, and the records of the active-session store.   *)
(***************************************************************************)
\* C37: in every session state reached from start_new_run, the relic of every
\* visited room that holds one is in collected_items, the start room included
C37_VisitedRelicsCollected ==
    \A u \in DOMAIN state : \A lid \in DOMAIN levels :
        \A r \in state[u].visited_rooms :
            levels[lid].rooms[r].item.type = "relic" =>
                levels[lid].rooms[r].item.name \in state[u].collected_items

\* C38: every record of the active-session store carries a level id for which
\* the level source returns a level, whatever level ids the calls were given
C38_SavedLevelKnown ==
    \A i \in DOMAIN saves : ~Unknown(saves[i].level_id)

\* C39: a move or a pickup for a user who has no active-session record leaves
\* the user without one
C39_OnlyStartCreates ==
    [][ ((Called("move") \/ Called("pickup")) /\ ~HasActive(saves, lastOp'.user)) =>
            ~HasActive(saves', lastOp'.user) ]_vars

(***************************************************************************)
(* Scoring the terminal states the controller reaches.                     *)
(***************************************************************************)
\* C40: for every accepted level and every terminal session state reached on
\* it, the level's score strategy returns a non-negative integer, and so does
\* each of the two strategies applied to that level: no division fails
C40_ScoreIsNonNegative ==
    \A u \in DOMAIN state : \A lid \in DOMAIN levels :
        state[u].status \in Terminal =>
            /\ calculate(state[u], levels[lid]).raised = "none"
            /\ calculate(state[u], levels[lid]).score >= 0
            /\ \A strategy \in Strategies :
                  LET sc == calculate(state[u], [levels[lid] EXCEPT !.scoring = strategy])
                  IN  sc.raised = "none" /\ sc.score >= 0

(***************************************************************************)
(* One move, statement by statement.  contexts holds the frame of the move *)
(* that is running (none between calls), issued the steps it has taken,    *)
(* each with the state it found and the state it left; state[u] is the     *)
(* caller's object, which the steps mutate in place.                       *)
(***************************************************************************)
\* a move that evaluates the rules before it runs the item hook
MoveSteps_rules_first == <<"rules.check", "item.on_enter", "_persist_or_finalize">>

\* what move does after the movement itself, in the order of its statements
MoveSteps == <<"item.on_enter", "rules.check", "_persist_or_finalize">>

Taken(step, seen, left) == [step |-> step, seen |-> seen, left |-> left]

\* the three rooms in a corridor that can be walked both ways, with every
\* placement of items and every set of required items
StepDefinitions ==
    { d \in WellFormedDefinitions :
        /\ d.rooms["Start"].exits = ExitsOf("Hall", None)
        /\ d.rooms["Hall"].exits = ExitsOf("End", "Start")
        /\ d.rooms["End"].exits = ExitsOf(None, "Hall") }

InitSteps ==
    /\ defn \in StepDefinitions
    /\ levels = <<>>
    /\ loadResult = "pending"
    /\ state = <<>>
    /\ saves = <<>>
    /\ history = <<>>
    /\ lastOp = Op("none", "none", "none", "none", "none")
    /\ scored = <<>>
    /\ contexts = <<>>
    /\ issued = <<>>
    /\ returned = <<>>

\* start_new_run, called when no move is running
StartBetweenMoves(u, lid) ==
    /\ contexts = <<>>
    /\ StartNewRun(u, lid)

\* move up to and including "Perform movement", on an IN_PROGRESS state, a
\* known level and a direction that is an exit
BeginMove(u, lid, direction) ==
    /\ contexts = <<>>
    /\ u \in DOMAIN state
    /\ ~is_terminal(state[u].status)
    /\ ~Unknown(lid)
    /\ direction \in DOMAIN levels[lid].rooms[state[u].location].exits
    /\ CanLog(state[u])
    /\ LET next_room == levels[lid].rooms[state[u].location].exits[direction]
           moved == perform_movement(state[u], direction, next_room)
       IN  /\ state' = Put(state, u, moved)
           /\ contexts' = <<[todo |-> MoveSteps, user |-> u, level_id |-> lid,
                             direction |-> direction, entered |-> next_room]>>
           /\ issued' = <<Taken("movement", state[u], moved)>>
    /\ UNCHANGED <<defn, levels, loadResult, saves, history, lastOp, scored, returned>>

\* if entered_room.item: entered_room.item.on_enter(state)
ItemHook ==
    /\ contexts # <<>>
    /\ Head(contexts[1].todo) = "item.on_enter"
    /\ LET f == contexts[1]
           room == levels[f.level_id].rooms[f.entered]
           t == IF room.item # NoItem THEN on_enter(room.item, state[f.user])
                ELSE state[f.user]
       IN  /\ state' = Put(state, f.user, t)
           /\ contexts' = <<[f EXCEPT !.todo = Tail(@)]>>
           /\ issued' = Append(issued, Taken("item.on_enter", state[f.user], t))
    /\ UNCHANGED <<defn, levels, loadResult, saves, history, lastOp, scored, returned>>

\* level.rules.check(state, entered_room)
RulesCheck ==
    /\ contexts # <<>>
    /\ Head(contexts[1].todo) = "rules.check"
    /\ LET f == contexts[1]
           lvl == levels[f.level_id]
           t == check(lvl.required_items, state[f.user], lvl.rooms[f.entered])
       IN  /\ state' = Put(state, f.user, t)
           /\ contexts' = <<[f EXCEPT !.todo = Tail(@)]>>
           /\ issued' = Append(issued, Taken("rules.check", state[f.user], t))
    /\ UNCHANGED <<defn, levels, loadResult, saves, history, lastOp, scored, returned>>

\* return self._persist_or_finalize(...): the move ends
PersistOrFinalize ==
    /\ contexts # <<>>
    /\ Head(contexts[1].todo) = "_persist_or_finalize"
    /\ LET f == contexts[1]
           r == persist_or_finalize(saves, history, f.user, f.level_id, state[f.user])
       IN  /\ state' = Put(state, f.user, r.state)
           /\ saves' = r.saves
           /\ history' = r.history
           /\ lastOp' = Op("move", f.user, f.level_id, f.direction, r.raised)
           /\ contexts' = IF Tail(f.todo) = <<>> THEN <<>>
                          ELSE <<[f EXCEPT !.todo = Tail(@)]>>
           /\ issued' = Append(issued, Taken("_persist_or_finalize", state[f.user], r.state))
    /\ UNCHANGED <<defn, levels, loadResult, scored, returned>>

NextSteps ==
    \/ LoadLevel
    \/ \E u \in Users, lid \in LevelIds : StartBetweenMoves(u, lid)
    \/ \E u \in Users, lid \in LevelIds, direction \in Directions : BeginMove(u, lid, direction)
    \/ ItemHook
    \/ RulesCheck
    \/ PersistOrFinalize

SpecSteps == InitSteps /\ [][NextSteps]_vars

\* a move along an exit has run to its end
MoveEnded == contexts = <<>> /\ lastOp.op = "move" /\ Len(issued) = Len(MoveSteps) + 1

\* C32: within one move the steps are, in this order: the movement (location,
\* move_count, visited); the entered room's item hook; the rule evaluation, once;
\* the autosave or the finalization.  The rules see the collected_items and
\* encountered_villain the hook produced, what is persisted is the state the
\* rules left, and the save of a move that returns holds that state
C32_StepsInOrder ==
    MoveEnded =>
        LET u == lastOp.user
            room == levels[lastOp.level_id].rooms[issued[1].left.location]
        IN  /\ [i \in 1..4 |-> issued[i].step] =
                    <<"movement", "item.on_enter", "rules.check", "_persist_or_finalize">>
            /\ issued[2].seen = issued[1].left
            /\ issued[3].seen = issued[2].left
            /\ room.item.type = "relic" => room.item.name \in issued[3].seen.collected_items
            /\ room.item.type = "villain" => issued[3].seen.encountered_villain
            /\ issued[4].seen = issued[3].left
            /\ state[u] = issued[3].left
            /\ lastOp.raised = "none" =>
                  /\ HasActive(saves, u)
                  /\ get_active(saves, u).state = issued[3].left

\* a move into a room with a relic returned: the rules saw the relic collected
\* that the movement had not yet found, and the save holds it
C32_Witness ==
    /\ MoveEnded
    /\ lastOp.raised = "none"
    /\ issued[1].left.collected_items = {}
    /\ issued[3].seen.collected_items # {}
    /\ get_active(saves, lastOp.user).state.collected_items # {}

(***************************************************************************)
(* The in-memory save repository keeps the GameSave it is given, and with  *)
(* it the caller's GameState object: what the caller does to the state     *)
(* afterwards is done to the saved state too.                              *)
(***************************************************************************)
\* InMemorySaveRepository: the saved state of a user is the object the user holds
by_reference(sv, held) ==
    [i \in DOMAIN sv |->
        IF sv[i].user_email \in DOMAIN held
        THEN [sv[i] EXCEPT !.state = gamestate_to_dict(held[sv[i].user_email])]
        ELSE sv[i]]

InitMem ==
    /\ defn \in StepDefinitions
    /\ levels = <<>>
    /\ loadResult = "pending"
    /\ state = <<>>
    /\ saves = <<>>
    /\ history = <<>>
    /\ lastOp = Op("none", "none", "none", "none", "none")
    /\ scored = <<>>
    /\ contexts = <<>>
    /\ issued = <<>>
    /\ returned = <<>>

\* move on the in-memory repository
MemMove(u, lid, direction) ==
    /\ u \in DOMAIN state
    /\ is_terminal(state[u].status) \/ CanLog(state[u])
    /\ LET r == move(saves, history, u, lid, state[u], direction)
           held == Put(state, u, r.state)
       IN  /\ state' = held
           /\ saves' = by_reference(r.saves, held)
           /\ history' = r.history
           /\ lastOp' = Op("move", u, lid, direction, r.raised)
    /\ UNCHANGED <<defn, levels, loadResult, aside>>

\* pickup on the in-memory repository
MemPickup(u, lid) ==
    /\ u \in DOMAIN state
    /\ LET r == pickup(saves, history, u, lid, state[u])
           held == Put(state, u, r.state)
       IN  /\ state' = held
           /\ saves' = by_reference(r.saves, held)
           /\ history' = r.history
           /\ lastOp' = Op("pickup", u, lid, "none", r.raised)
    /\ UNCHANGED <<defn, levels, loadResult, aside>>

NextMem ==
    \/ LoadLevel
    \/ \E u \in Users, lid \in LevelIds : StartNewRun(u, lid)
    \/ \E u \in Users, lid \in LevelIds : RestartRun(u, lid)
    \/ \E u \in Users : AbandonRun(u)
    \/ \E u \in Users : RestoreRun(u)
    \/ \E u \in Users, lid \in LevelIds, direction \in AskedDirections : MemMove(u, lid, direction)
    \/ \E u \in Users, lid \in LevelIds : MemPickup(u, lid)

SpecMem == InitMem /\ [][NextMem]_vars

\* C34: after a controller operation has returned, no record of the
\* active-session store holds a state whose status is COMPLETED or GAME_OVER
C34_NoTerminalSave ==
    lastOp.raised = "none" =>
        \A i \in DOMAIN saves : ~is_terminal(gamestate_from_dict(saves[i].state).status)

====
